---- MODULE Spec2Model ----
(***************************************************************************)
(* Model of code/bwt/rust/bwt.rs: main reads one line from stdin, trims    *)
(* it, generates every rotation of the text, sorts the rotations and       *)
(* prints the last character of each sorted rotation (the Burrows-Wheeler  *)
(* transform).                                                             *)
(*                                                                         *)
(* A Rust String is modelled as the sequence of its UTF-8 bytes (naturals  *)
(* in 0..255), a char as its Unicode scalar value, stdout as the sequence  *)
(* of lines printed, each tagged with the println! that produced it.       *)
(***************************************************************************)
EXTENDS Integers, Sequences, FiniteSets, Bags, TLC

\* Longest content of stdin that is enumerated.
MaxLen == 4

\* Bytes stdin is built from: tab, newline, space, 'a', 'b' and the two
\* bytes 0xC3 0xA9 of the two-byte character U+00E9.
Alphabet == {9, 10, 32, 97, 98, 195, 169}

\* "banana\n", the worked example.
ExampleInputs == {<<98, 97, 110, 97, 110, 97, 10>>}

Inputs == (UNION {[1..k -> Alphabet] : k \in 0..MaxLen}) \cup ExampleInputs

VARIABLES
  stdin,   \* the input stream: its bytes, or an I/O error on reading it
  pc,      \* position of main
  reads,   \* number of read_line calls made
  line,    \* String line
  text,    \* &str text = line.trim_end()
  l,       \* usize l = text.len()
  n,       \* index of the rotation loop
  vec,     \* Vec<String> vec
  i,       \* position of the iterator vec.iter()
  bwt,     \* Vec<char> bwt
  out,     \* stdout, one entry per println!
  err,     \* what panicked: "none", "read", "slice", "unwrap"
  exit     \* <<>> while running, <<status>> once the process has ended

vars == <<stdin, pc, reads, line, text, l, n, vec, i, bwt, out, err, exit>>

----------------------------------------------------------------------------
(* UTF-8 and str primitives of the standard library, as main uses them.    *)

IsContinuation(b) == b \in 128..191

\* Width of the character a lead byte starts; 0 for a byte that starts none.
Utf8Width(b) ==
  IF b < 128 THEN 1
  ELSE IF b \in 194..223 THEN 2
  ELSE IF b \in 224..239 THEN 3
  ELSE IF b \in 240..244 THEN 4
  ELSE 0

RECURSIVE ValidUtf8(_)
ValidUtf8(s) ==
  IF s = <<>> THEN TRUE
  ELSE LET w == Utf8Width(Head(s)) IN
       /\ w > 0
       /\ Len(s) >= w
       /\ \A k \in 2..w : IsContinuation(s[k])
       /\ ValidUtf8(SubSeq(s, w + 1, Len(s)))

\* str::is_char_boundary(idx)
IsCharBoundary(s, idx) ==
  IF idx = 0 \/ idx = Len(s) THEN TRUE
  ELSE IF idx > Len(s) THEN FALSE
  ELSE ~IsContinuation(s[idx + 1])

\* &s[from..to], defined when both ends are char boundaries.
Slice(s, from, to) == SubSeq(s, from + 1, to)

RECURSIVE DecodeFrom(_, _, _)
DecodeFrom(s, k, acc) ==
  IF k > Len(s) THEN acc ELSE DecodeFrom(s, k + 1, acc * 64 + (s[k] - 128))

\* The scalar value of the one character whose UTF-8 bytes are s.
Decode(s) ==
  LET w == Len(s) IN
  IF w = 1 THEN s[1]
  ELSE IF w = 2 THEN DecodeFrom(s, 2, s[1] - 192)
  ELSE IF w = 3 THEN DecodeFrom(s, 2, s[1] - 224)
  ELSE DecodeFrom(s, 2, s[1] - 240)

\* The UTF-8 bytes of scalar value c.
Encode(c) ==
  IF c < 128 THEN <<c>>
  ELSE IF c < 2048 THEN <<192 + (c \div 64), 128 + (c % 64)>>
  ELSE IF c < 65536 THEN
    <<224 + (c \div 4096), 128 + ((c \div 64) % 64), 128 + (c % 64)>>
  ELSE <<240 + (c \div 262144), 128 + ((c \div 4096) % 64),
         128 + ((c \div 64) % 64), 128 + (c % 64)>>

RECURSIVE LastStart(_, _)
LastStart(s, k) == IF k > 1 /\ IsContinuation(s[k]) THEN LastStart(s, k - 1) ELSE k

\* Width in bytes of the last character of a non-empty string.
LastWidth(s) == Len(s) - LastStart(s, Len(s)) + 1

\* char::is_whitespace: the White_Space code points.
IsWhitespace(c) ==
  c \in (9..13) \cup {32, 133, 160, 5760, 8232, 8233, 8239, 8287, 12288}
        \cup (8192..8202)

\* v.chars().last(): <<>> for None, <<c>> for Some(c).
CharsFirst(s) ==
  IF s = <<>> THEN <<>> ELSE <<Decode(SubSeq(s, 1, Utf8Width(s[1])))>>

CharsLast(s) ==
  IF s = <<>> THEN <<>>
  ELSE <<Decode(SubSeq(s, LastStart(s, Len(s)), Len(s)))>>

\* A trim that drops one trailing line terminator ("\n" or "\r\n") only.
TrimNewline(s) ==
  IF s # <<>> /\ s[Len(s)] = 10
  THEN IF Len(s) >= 2 /\ s[Len(s) - 1] = 13
       THEN SubSeq(s, 1, Len(s) - 2)
       ELSE SubSeq(s, 1, Len(s) - 1)
  ELSE s

\* str::trim_end(): drops every trailing whitespace character.
RECURSIVE TrimEnd(_)
TrimEnd(s) ==
  IF s = <<>> THEN s
  ELSE IF IsWhitespace(CharsLast(s)[1])
       THEN TrimEnd(SubSeq(s, 1, Len(s) - LastWidth(s)))
       ELSE s

\* [x, y].concat()
Concat(x, y) == x \o y

\* bwt.into_iter().collect::<String>()
RECURSIVE CollectString(_)
CollectString(cs) ==
  IF cs = <<>> THEN <<>> ELSE Encode(Head(cs)) \o CollectString(Tail(cs))

\* Ord for String: byte-wise lexicographic, a proper prefix is less.
RECURSIVE StrLess(_, _)
StrLess(x, y) ==
  IF y = <<>> THEN FALSE
  ELSE IF x = <<>> THEN TRUE
  ELSE IF Head(x) # Head(y) THEN Head(x) < Head(y)
  ELSE StrLess(Tail(x), Tail(y))

RECURSIVE Insert(_, _)
Insert(x, s) ==
  IF s = <<>> THEN <<x>>
  ELSE IF StrLess(x, Head(s)) THEN <<x>> \o s
  ELSE <<Head(s)>> \o Insert(x, Tail(s))

RECURSIVE SortFrom(_, _, _)
SortFrom(v, k, acc) ==
  IF k > Len(v) THEN acc ELSE SortFrom(v, k + 1, Insert(v[k], acc))

\* The vector left in place, as a forgotten sort would leave it.
SortVecSkipped(v) == v

\* vec.sort(): a stable sort by Ord for String.
SortVec(v) == SortFrom(v, 1, <<>>)

----------------------------------------------------------------------------
(* read_line                                                               *)

RECURSIVE FirstNewline(_, _)
FirstNewline(s, k) ==
  IF k > Len(s) THEN 0 ELSE IF s[k] = 10 THEN k ELSE FirstNewline(s, k + 1)

\* The bytes read_line takes: up to and including the first newline, or
\* everything up to the end of the stream.
FirstLine(s) ==
  LET k == FirstNewline(s, 1) IN IF k = 0 THEN s ELSE SubSeq(s, 1, k)

\* A read_line that reports every read as Ok, with whatever it could read.
ReadLineSwallow(s) ==
  [ok |-> TRUE,
   buf |-> IF s.fail \/ ~ValidUtf8(FirstLine(s.bytes)) THEN <<>>
           ELSE FirstLine(s.bytes)]

\* stdin.lock().read_line(&mut line): Err on an I/O error and on bytes that
\* are not UTF-8, Ok(count) otherwise, Ok(0) at the end of the stream.
ReadLine(s) ==
  IF s.fail \/ ~ValidUtf8(FirstLine(s.bytes))
  THEN [ok |-> FALSE, buf |-> <<>>]
  ELSE [ok |-> TRUE, buf |-> FirstLine(s.bytes)]

----------------------------------------------------------------------------
(* The rotation loop                                                       *)

\* A loop over 0..=l.
RotationRangeInclusive(len) == 0..len

\* A loop that stops one short.
RotationRangeShort(len) == 0..(len - 2)

\* for n in 0..l
RotationRange(len) == 0..(len - 1)

\* The two halves joined in their original order.
RotatedUnswapped(s, k, len) == Concat(Slice(s, 0, k), Slice(s, k, len))

\* a = &text[0..n]; b = &text[n..l]; [b, a].concat()
Rotated(s, k, len) ==
  LET a == Slice(s, 0, k)
      b == Slice(s, k, len)
  IN Concat(b, a)

\* The first character of the rotation instead of its last.
ExtractCharFirst(v) == CharsFirst(v)

\* v.chars().last(), the Option that main unwraps.
ExtractChar(v) == CharsLast(v)

Emit(kind, val) == Append(out, [kind |-> kind, val |-> val])

Panic(what) ==
  /\ pc' = "panic"
  /\ err' = what
  /\ exit' = <<101>>

----------------------------------------------------------------------------
Init ==
  /\ stdin \in [bytes : Inputs, fail : {FALSE}]
               \cup {[bytes |-> <<>>, fail |-> TRUE]}
  /\ pc = "read"
  /\ reads = 0
  /\ line = <<>>
  /\ text = <<>>
  /\ l = 0
  /\ n = 0
  /\ vec = <<>>
  /\ i = 0
  /\ bwt = <<>>
  /\ out = <<>>
  /\ err = "none"
  /\ exit = <<>>

\* let mut line = String::new(); stdin.lock().read_line(&mut line).unwrap();
DoReadLine ==
  /\ pc = "read"
  /\ reads' = reads + 1
  /\ LET r == ReadLine(stdin) IN
     IF r.ok
     THEN /\ line' = r.buf
          /\ pc' = "trim"
          /\ UNCHANGED <<err, exit>>
     ELSE /\ Panic("read")
          /\ UNCHANGED line
  /\ UNCHANGED <<stdin, text, l, n, vec, i, bwt, out>>

\* let text = line.trim_end(); println!("String to transform: {}", text);
DoTrim ==
  /\ pc = "trim"
  /\ text' = TrimEnd(line)
  /\ out' = Emit("original", text')
  /\ pc' = "rotLabel"
  /\ UNCHANGED <<stdin, reads, line, l, n, vec, i, bwt, err, exit>>

\* println!("\nRotated:"); let mut vec = Vec::new(); let l = text.len();
DoRotatedLabel ==
  /\ pc = "rotLabel"
  /\ out' = Emit("rotatedLabel", <<>>)
  /\ vec' = <<>>
  /\ l' = Len(text)
  /\ n' = 0
  /\ pc' = "rot"
  /\ UNCHANGED <<stdin, reads, line, text, i, bwt, err, exit>>

\* One iteration of for n in 0..l: slice, concat, println!, push.  A slice
\* whose end is not a char boundary panics.
DoRotate ==
  /\ pc = "rot"
  /\ n \in RotationRange(l)
  /\ IF IsCharBoundary(text, n) /\ IsCharBoundary(text, l)
     THEN LET rotated == Rotated(text, n, l) IN
          /\ out' = Emit("rotation", rotated)
          /\ vec' = Append(vec, rotated)
          /\ n' = n + 1
          /\ UNCHANGED <<pc, err, exit>>
     ELSE /\ Panic("slice")
          /\ UNCHANGED <<out, vec, n>>
  /\ UNCHANGED <<stdin, reads, line, text, l, i, bwt>>

\* The range 0..l is exhausted.
DoRotateEnd ==
  /\ pc = "rot"
  /\ n \notin RotationRange(l)
  /\ pc' = "sortLabel"
  /\ UNCHANGED <<stdin, reads, line, text, l, n, vec, i, bwt, out, err, exit>>

\* println!("\nSorted:"); vec.sort();
DoSort ==
  /\ pc = "sortLabel"
  /\ out' = Emit("sortedLabel", <<>>)
  /\ vec' = SortVec(vec)
  /\ i' = 0
  /\ pc' = "printSorted"
  /\ UNCHANGED <<stdin, reads, line, text, l, n, bwt, err, exit>>

\* for v in vec.iter() { println!("{}", v); }
DoPrintSorted ==
  /\ pc = "printSorted"
  /\ IF i < Len(vec)
     THEN /\ out' = Emit("sorted", vec[i + 1])
          /\ i' = i + 1
          /\ UNCHANGED pc
     ELSE /\ pc' = "finalLabel"
          /\ UNCHANGED <<out, i>>
  /\ UNCHANGED <<stdin, reads, line, text, l, n, vec, bwt, err, exit>>

\* println!("\nFinal BWT"); let mut bwt: Vec<char> = Vec::new();
DoFinalLabel ==
  /\ pc = "finalLabel"
  /\ out' = Emit("finalLabel", <<>>)
  /\ bwt' = <<>>
  /\ i' = 0
  /\ pc' = "extract"
  /\ UNCHANGED <<stdin, reads, line, text, l, n, vec, err, exit>>

\* for v in vec.iter() { bwt.push(v.chars().last().unwrap()); }
DoExtract ==
  /\ pc = "extract"
  /\ IF i < Len(vec)
     THEN LET last == ExtractChar(vec[i + 1]) IN
          IF last = <<>>
          THEN /\ Panic("unwrap")
               /\ UNCHANGED <<bwt, i>>
          ELSE /\ bwt' = Append(bwt, last[1])
               /\ i' = i + 1
               /\ UNCHANGED <<pc, err, exit>>
     ELSE /\ pc' = "printBwt"
          /\ UNCHANGED <<bwt, i, err, exit>>
  /\ UNCHANGED <<stdin, reads, line, text, l, n, vec, out>>

\* println!("{}", bwt.into_iter().collect::<String>()); main returns.
DoPrintBwt ==
  /\ pc = "printBwt"
  /\ out' = Emit("bwt", CollectString(bwt))
  /\ pc' = "done"
  /\ exit' = <<0>>
  /\ UNCHANGED <<stdin, reads, line, text, l, n, vec, i, bwt, err>>

Next ==
  \/ DoReadLine
  \/ DoTrim
  \/ DoRotatedLabel
  \/ DoRotate
  \/ DoRotateEnd
  \/ DoSort
  \/ DoPrintSorted
  \/ DoFinalLabel
  \/ DoExtract
  \/ DoPrintBwt

Spec == Init /\ [][Next]_vars

----------------------------------------------------------------------------
(* Properties                                                              *)

\* The values of the lines of one kind printed so far, in order.
OutVals(kind) ==
  LET sel == SelectSeq(out, LAMBDA e : e.kind = kind)
  IN [k \in 1..Len(sel) |-> sel[k].val]

\* The multiset of the elements of a sequence.
BagOfSeq(s) ==
  [x \in {s[k] : k \in DOMAIN s} |-> Cardinality({k \in DOMAIN s : s[k] = x})]

\* s shifted left cyclically by k positions.
ShiftLeft(s, k) == [j \in 1..Len(s) |-> s[((j - 1 + k) % Len(s)) + 1]]

\* x <= y, left to right by character code, a prefix before its extensions.
LexLeq(x, y) ==
  \/ x = y
  \/ \E k \in 1..Len(y) :
       /\ k - 1 <= Len(x)
       /\ \A j \in 1..(k - 1) : x[j] = y[j]
       /\ (k > Len(x) \/ x[k] < y[k])

\* main has its text: the read succeeded and the line was trimmed.
HasText == pc \notin {"read", "trim"} /\ err # "read"

\* The sort step has run.
AfterSort == pc \in {"printSorted", "finalLabel", "extract", "printBwt", "done"}

Banana == <<98, 97, 110, 97, 110, 97>>
Nnbaaa == <<110, 110, 98, 97, 97, 97>>

\* The last line printed.
LastOut == out[Len(out)]

\* C1: when main ends, the last line printed is the BWT: a string of length
\* l whose i-th character is the last character of the i-th rotation of the
\* sorted sequence (the sequence printed in the sorted section); "banana"
\* gives "nnbaaa".
C1_BwtIsLastColumn ==
  pc = "done" =>
    /\ LastOut.kind = "bwt"
    /\ Len(LastOut.val) = Len(text)
    /\ Len(vec) = Len(text)
    /\ OutVals("sorted") = vec
    /\ \A k \in 1..Len(text) : LastOut.val[k] = vec[k][Len(vec[k])]
    /\ (text = Banana => LastOut.val = Nnbaaa)

C1_Witness == pc = "done" /\ text = Banana /\ LastOut.val = Nnbaaa

\* C2: the rotation loop pushes rotation n = S[n:l] + S[0:n] at index n,
\* each of length l, and leaves the loop with exactly l rotations.
C2_RotationsAreSuffixPrefix ==
  pc \in {"rot", "sortLabel"} =>
    /\ l = Len(text)
    /\ Len(vec) = n
    /\ n <= l
    /\ (pc = "sortLabel" => Len(vec) = l)
    /\ OutVals("rotation") = vec
    /\ \A k \in 1..Len(vec) :
         /\ vec[k] = SubSeq(text, k, l) \o SubSeq(text, 1, k - 1)
         /\ Len(vec[k]) = l

C2_Witness == pc = "sortLabel" /\ Len(vec) >= 3 /\ vec[2] # vec[1]

\* C3: after the sort step vec is a permutation of the rotations generated
\* (same multiset, same length l), every adjacent pair is in character-code
\* order, and sorting it again changes nothing.
C3_SortedPermutation ==
  AfterSort =>
    /\ Len(vec) = l
    /\ BagOfSeq(vec) = BagOfSeq(OutVals("rotation"))
    /\ \A k \in 1..(Len(vec) - 1) : LexLeq(vec[k], vec[k + 1])
    /\ SortVec(vec) = vec

C3_Witness ==
  pc = "printSorted" /\ Len(vec) >= 3 /\ vec # OutVals("rotation")

\* C4: for a non-empty S the BWT printed has the same multiset of characters
\* as S.
C4_BwtPermutesInput ==
  (pc = "done" /\ text # <<>>) => BagOfSeq(LastOut.val) = BagOfSeq(text)

C4_Witness == pc = "done" /\ Len(text) >= 3 /\ LastOut.val # text

\* C5: with an empty text main generates no rotation, never reads a last
\* character (every such read pushes a character or panics), never panics,
\* can always take its next step, and ends printing the empty BWT with exit
\* status 0.
C5_EmptyInputIsValid ==
  (HasText /\ text = <<>>) =>
    /\ vec = <<>>
    /\ OutVals("rotation") = <<>>
    /\ bwt = <<>>
    /\ err = "none"
    /\ pc # "panic"
    /\ (pc # "done" => ENABLED Next)
    /\ (pc = "done" => exit = <<0>> /\ LastOut = [kind |-> "bwt", val |-> <<>>])

C5_Witness == pc = "done" /\ text = <<>> /\ Len(out) = 5 /\ exit = <<0>>

\* The read fails: an I/O error, or bytes that are not UTF-8.
ReadErrs == stdin.fail \/ ~ValidUtf8(FirstLine(stdin.bytes))

\* The stream is closed and yields no line.
ClosedStream == ~stdin.fail /\ stdin.bytes = <<>>

StripTerminator(s) == TrimNewline(s)

\* The one-byte whitespace characters.
WhitespaceBytes == (9..13) \cup {32}

\* C7 as stated: the text is the line less its trailing line terminator, and
\* nothing else is removed.
C7_Original == HasText => text = StripTerminator(line)

\* C7 amended: the text is the line with all of its trailing whitespace
\* removed, the line terminator and any spaces or tabs before it; every
\* character before that is kept.
C7_TrailingWhitespaceTrimmed ==
  HasText =>
    /\ Len(text) <= Len(line)
    /\ text = SubSeq(line, 1, Len(text))
    /\ \A k \in (Len(text) + 1)..Len(line) : line[k] \in WhitespaceBytes
    /\ (text # <<>> => text[Len(text)] \notin WhitespaceBytes)

C7_Witness ==
  /\ pc = "done"
  /\ text # <<>>
  /\ Len(line) >= Len(text) + 2
  /\ \E k \in 1..Len(text) : text[k] \in WhitespaceBytes

\* The kinds of the lines of a complete run on a text of length len.
ExpectedKinds(len) ==
  <<"original", "rotatedLabel">> \o [k \in 1..len |-> "rotation"]
    \o <<"sortedLabel">> \o [k \in 1..len |-> "sorted"]
    \o <<"finalLabel", "bwt">>

\* C8: what is printed is always a prefix of: the original line, the
\* rotation label, the l rotations in generation order, the sorted label,
\* the l rotations in sorted order, the final label, the BWT; a run that
\* ends has printed all of it.
C8_OutputOrder ==
  LET E == ExpectedKinds(Len(text)) IN
  /\ Len(out) <= Len(E)
  /\ \A k \in 1..Len(out) : out[k].kind = E[k]
  /\ \A k \in 1..Len(OutVals("rotation")) :
       OutVals("rotation")[k] = ShiftLeft(text, k - 1)
  /\ \A k \in 1..(Len(OutVals("sorted")) - 1) :
       LexLeq(OutVals("sorted")[k], OutVals("sorted")[k + 1])
  /\ (OutVals("sorted") # <<>> => Len(OutVals("rotation")) = Len(text))
  /\ (pc = "done" =>
        /\ Len(out) = Len(E)
        /\ out[1].val = text
        /\ BagOfSeq(OutVals("sorted")) = BagOfSeq(OutVals("rotation"))
        /\ LastOut.val = CollectString(bwt))

C8_Witness == pc = "done" /\ Len(text) >= 3 /\ Len(out) = 2 * Len(text) + 5

\* C9 as stated: once the line is read nothing panics: no slice of the
\* rotation loop and no unwrap of the extraction fails.
C9_Original == err \notin {"slice", "unwrap"}

\* C10 as stated: rotation n is S shifted left by n positions and no two
\* rotations at different indices are the same string.
C10_Original ==
  pc = "sortLabel" =>
    /\ \A a \in 1..Len(vec) : vec[a] = ShiftLeft(text, a - 1)
    /\ \A a, b \in 1..Len(vec) : a # b => vec[a] # vec[b]

\* C10 amended: rotation n is S shifted left by n positions, and the
\* rotations at two different indices are the same string exactly when S is
\* its own shift by the difference of the indices (a periodic S).
C10_ShiftsEqualOnlyIfPeriodic ==
  pc \in {"rot", "sortLabel"} =>
    /\ \A a \in 1..Len(vec) : vec[a] = ShiftLeft(text, a - 1)
    /\ \A a, b \in 1..Len(vec) :
         a < b => (vec[a] = vec[b] <=> ShiftLeft(text, b - a) = text)

C10_Witness ==
  /\ pc = "sortLabel"
  /\ \E a, b \in 1..Len(vec) : a < b /\ vec[a] = vec[b]
  /\ \E c \in 1..Len(vec) : vec[c] # vec[1]

====
